---- MODULE Spec2Model ----
(***************************************************************************)
(* Model of DatabaseLibrary.assertion.Assertion: the keyword entry points  *)
(* of the assertion mixin, the Query Executor they call into, and the host *)
(* that invokes one keyword after another on a single instance.            *)
(*                                                                         *)
(* A keyword invocation is a sequence of steps: the code up to its first   *)
(* blocking executor call, then the code between two executor returns,     *)
(* then the comparison that either returns silently or raises.             *)
(***************************************************************************)
EXTENDS Integers, Sequences, FiniteSets, TLC

VARIABLES
    db_api_module_name, \* self.db_api_module_name, the active driver's name
    deployed,           \* database state: scripts whose effects are in the database
    cursors,            \* cursors obtained from self._dbconnection and not closed
    pc,                 \* "idle" | "wait" (executor call pending) | "ready" | "done"
    call,               \* the running invocation: entry point, frame and arguments
    log,                \* logger.info entries of the running invocation
    trace,              \* executor calls issued by the running invocation
    results,            \* what the executor returned to the running invocation
    outcome,            \* "none" | "pass" | the name of the raised exception
    message,            \* the parts of the raised exception's message
    scalars,            \* the numbers the handler extracted from result rows
    prev                \* history: the invocation the host collected last

vars == <<db_api_module_name, deployed, cursors, pc, call, log, trace, results,
          outcome, message, scalars, prev>>

persistent == <<db_api_module_name, deployed, cursors, prev>>

-----------------------------------------------------------------------------
(* Bounds of the model.                                                    *)

MaxRows == 3        \* largest count row_count / compare_tables reports
MaxTarget == 3      \* largest numeric string n offered as numRows
MaxCol == 1         \* largest column value of a row in the narrow row sets
MaxInt == 3         \* largest first column of a row in the wide row sets
MaxFrac == 15       \* largest second column of a row in the wide row sets
MaxTotal == 20      \* largest row count in the percentage specification
MaxCursors == 2     \* cursors the model lets the checks leave open

-----------------------------------------------------------------------------
(* The records of the model.                                               *)

\* The result of a conversion: the value, or the exception it raises.
Converted(v) == [err |-> "none", val |-> v]
Raises(exc) == [err |-> exc, val |-> 0]

\* A keyword argument as Robot Framework hands it over: a str or an int.
StrArg(s) == [type |-> "str", chars |-> s, int |-> 0]
IntArg(i) == [type |-> "int", chars |-> <<>>, int |-> i]
NoArg == [type |-> "none", chars |-> <<>>, int |-> 0]

\* A float read from a decimal string: int + num/den.
Decimal(i, num, den) == [err |-> "none", int |-> i, num |-> num, den |-> den]
NoDecimal(exc) == [err |-> exc, int |-> 0, num |-> 0, den |-> 1]

\* An invocation: the entry point kw the host called with the flag sansTran,
\* and the frame body that runs with statement or table target, further
\* identifiers ids and numeric argument n.
Invocation(kw, body, target, ids, n, sansTran) ==
    [kw |-> kw, body |-> body, target |-> target, ids |-> ids, n |-> n,
     sansTran |-> sansTran]

NoCall == Invocation("", "", "", <<>>, NoArg, FALSE)

\* An executor call; logged is the number of log entries written before it.
ExecCall(op, sql, sansTran) ==
    [sansTran |-> sansTran, op |-> op, sql |-> sql, logged |-> 0]

\* What the executor hands back.
CountResult(c) == [kind |-> "count", count |-> c, rows |-> <<>>]
RowsResult(rs) == [kind |-> "rows", count |-> 0, rows |-> rs]
NoneResult == [kind |-> "none", count |-> 0, rows |-> <<>>]

NoPrev == [call |-> NoCall, results |-> <<>>, outcome |-> "none"]

-----------------------------------------------------------------------------
(* Python values: str() of an int, int() of bytes, repr() of a row list.   *)

Digits == <<"0", "1", "2", "3", "4", "5", "6", "7", "8", "9">>

IsDigit(c) == \E i \in 1..10 : Digits[i] = c

DigitVal(c) == (CHOOSE i \in 1..10 : Digits[i] = c) - 1

RECURSIVE DecimalChars(_)
\* str(i) for a non-negative int, as its characters
DecimalChars(i) ==
    IF i < 10 THEN <<Digits[i + 1]>>
    ELSE Append(DecimalChars(i \div 10), Digits[(i % 10) + 1])

RECURSIVE JoinChars(_)
JoinChars(s) == IF s = <<>> THEN "" ELSE Head(s) \o JoinChars(Tail(s))

RECURSIVE DigitsValue(_, _)
\* the value of a run of decimal digits, most significant first
DigitsValue(s, acc) ==
    IF s = <<>> THEN acc ELSE DigitsValue(Tail(s), acc * 10 + DigitVal(Head(s)))

AllDigits(s) == s # <<>> /\ \A i \in 1..Len(s) : IsDigit(s[i])

\* '%s' % arg
ArgText(a) == IF a.type = "int" THEN ToString(a.int) ELSE JoinChars(a.chars)

\* int(b): an optional sign, then one or more digits; anything else is a
\* ValueError.
IntOfBytes(s) ==
    LET signed == s # <<>> /\ Head(s) \in {"-", "+"}
        digits == IF signed THEN Tail(s) ELSE s
    IN  IF AllDigits(digits)
        THEN Converted(IF signed /\ Head(s) = "-"
                       THEN 0 - DigitsValue(digits, 0) ELSE DigitsValue(digits, 0))
        ELSE Raises("ValueError")

\* int(numRows.encode('ascii')): only a str has encode().
int_encode_ascii(numRows) ==
    IF numRows.type = "str" THEN IntOfBytes(numRows.chars)
    ELSE Raises("AttributeError")

RECURSIVE ReprTupleItems(_)
ReprTupleItems(row) ==
    IF Len(row) = 1 THEN ToString(row[1])
    ELSE ToString(Head(row)) \o ", " \o ReprTupleItems(Tail(row))

\* repr() of a row, a tuple of ints: (1,) and (1, 2)
ReprTuple(row) ==
    IF Len(row) = 1 THEN "(" \o ToString(row[1]) \o ",)"
    ELSE "(" \o ReprTupleItems(row) \o ")"

RECURSIVE ReprRowItems(_)
ReprRowItems(rows) ==
    IF Len(rows) = 1 THEN ReprTuple(rows[1])
    ELSE ReprTuple(Head(rows)) \o ", " \o ReprRowItems(Tail(rows))

\* '%s' % queryResults
ReprRows(rows) == IF rows = <<>> THEN "[]" ELSE "[" \o ReprRowItems(rows) \o "]"

Range(s) == {s[i] : i \in 1..Len(s)}

-----------------------------------------------------------------------------
(* Inputs the host offers.                                                 *)

Statements == {"SELECT id FROM person WHERE first_name = 'Franz Allan'",
               "SELECT id FROM person WHERE first_name = 'John'"}

NumericStrings ==
    {DecimalChars(i) : i \in 0..MaxTarget}
        \cup {<<"-", "1">>, <<"+", "2">>, <<"0", "2">>, <<"1", "0">>}

NonNumericStrings == {<<>>, <<"a", "b", "c">>, <<"2", "x">>}

NumRowsArgs ==
    {StrArg(s) : s \in NumericStrings \cup NonNumericStrings}
        \cup {IntArg(i) : i \in 0..1}

DriverNames == {"cx_Oracle", "sqlite3", "ibm_db", "ibm_db_dbi", "psycopg2", "pymysql"}

TableNames == {"person", "first_name"}

ScriptNames == {"deploy_view.sql"}

-----------------------------------------------------------------------------
(* The Query Executor: results it can hand back.                           *)

\* Row sets of a query: no row, one row of one to three columns, two rows.
RowSets(maxA, maxB) ==
    {<<>>}
        \cup {<< <<a>> >> : a \in 0..maxA}
        \cup {<< <<a, b>> >> : a \in 0..maxA, b \in 0..maxB}
        \cup {<< <<1, 2, 3>> >>, << <<1>>, <<2>> >>}

ResultDomain(op, maxCount, rowSets) ==
    CASE op = "row_count" -> {CountResult(c) : c \in 0..maxCount}
      [] op = "compare_tables" -> {CountResult(c) : c \in 0..maxCount}
      [] op = "execute_sql_script" -> {NoneResult}
      [] OTHER -> {RowsResult(rs) : rs \in rowSets}

-----------------------------------------------------------------------------
(* Steps shared by the handlers.                                           *)

\* The handler starts: it has logged `entries` and blocks in its first
\* executor call.
Enter(c, entries, ecall) ==
    /\ pc = "idle"
    /\ pc' = "wait"
    /\ call' = c
    /\ log' = entries
    /\ trace' = <<[ecall EXCEPT !.logged = Len(entries)]>>
    /\ results' = <<>>
    /\ outcome' = "none"
    /\ message' = <<>>
    /\ scalars' = <<>>
    /\ UNCHANGED persistent

\* The handler ends before any executor call.
EndAtOnce(c, entries, exc, msg) ==
    /\ pc = "idle"
    /\ pc' = "done"
    /\ call' = c
    /\ log' = entries
    /\ trace' = <<>>
    /\ results' = <<>>
    /\ outcome' = exc
    /\ message' = msg
    /\ scalars' = <<>>
    /\ UNCHANGED persistent

\* The handler logs `entries` and blocks in its next executor call.
Issue(entries, ecall) ==
    /\ pc' = "wait"
    /\ log' = log \o entries
    /\ trace' = Append(trace, [ecall EXCEPT !.logged = Len(log) + Len(entries)])
    /\ UNCHANGED <<call, results, outcome, message, scalars, persistent>>

\* The handler logs `entries` and ends, having extracted the numbers `nums`:
\* exc is "pass" or the raised exception.
End(entries, nums, exc, msg) ==
    /\ pc' = "done"
    /\ log' = log \o entries
    /\ scalars' = nums
    /\ outcome' = exc
    /\ message' = msg
    /\ UNCHANGED <<call, trace, results, persistent>>

Finish(entries, exc, msg) == End(entries, <<>>, exc, msg)

\* The handler raises.
Raise(exc, msg) == Finish(<<>>, exc, msg)

\* The handler falls off its end: it returns None.
Pass == Raise("pass", <<>>)

\* The frame `body` resumes after its k-th executor call returned.
Resumes(body, k) == pc = "ready" /\ call.body = body /\ Len(results) = k

-----------------------------------------------------------------------------
(* Existence checks.                                                       *)

\* A faulty variant: the test of the result inverted.
check_if_exists_in_database_fails_inverted(queryResults) == queryResults # <<>>

\* not self.query(selectStatement, sansTran): an empty list is falsy
check_if_exists_in_database_fails(queryResults) == queryResults = <<>>

check_if_exists_in_database ==
    \/ \E selectStatement \in Statements, sansTran \in BOOLEAN :
        Enter([kw |-> "check_if_exists_in_database",
               body |-> "check_if_exists_in_database",
               target |-> selectStatement, ids |-> <<>>, n |-> NoArg, sansTran |-> sansTran],
              << <<"Executing : Check If Exists In Database  |  ", selectStatement, " ">> >>,
              ExecCall("query", selectStatement, sansTran))
    \/ /\ Resumes("check_if_exists_in_database", 1)
       /\ IF check_if_exists_in_database_fails(results[1].rows)
          THEN Raise("AssertionError",
                     <<"Expected to have have at least one row from '", call.target,
                       "' but got 0 rows.">>)
          ELSE Pass

check_if_not_exists_in_database ==
    \/ \E selectStatement \in Statements, sansTran \in BOOLEAN :
        Enter([kw |-> "check_if_not_exists_in_database",
               body |-> "check_if_not_exists_in_database",
               target |-> selectStatement, ids |-> <<>>, n |-> NoArg, sansTran |-> sansTran],
              << <<"Executing : Check If Not Exists In Database  |  ", selectStatement, " ">> >>,
              ExecCall("query", selectStatement, sansTran))
    \/ /\ Resumes("check_if_not_exists_in_database", 1)
       /\ IF results[1].rows # <<>>
          THEN Raise("AssertionError",
                     <<"Expected to have have no rows from '", call.target,
                       "' but got some rows : ", ReprRows(results[1].rows), ".">>)
          ELSE Pass

-----------------------------------------------------------------------------
(* Row-count comparisons.                                                  *)

\* A faulty variant: the verdict reuses the count the previous invocation of
\* the keyword saw instead of the count of this invocation.
row_count_is_0_fails_cached(num_rows) ==
    IF prev.call.kw = "row_count_is_0" /\ prev.results # <<>>
    THEN prev.results[1].count > 0
    ELSE num_rows > 0

row_count_is_0_fails(num_rows) == num_rows > 0

row_count_is_0 ==
    \/ \E selectStatement \in Statements, sansTran \in BOOLEAN :
        Enter([kw |-> "row_count_is_0", body |-> "row_count_is_0",
               target |-> selectStatement, ids |-> <<>>, n |-> NoArg, sansTran |-> sansTran],
              << <<"Executing : Row Count Is 0  |  ", selectStatement, " ">> >>,
              ExecCall("row_count", selectStatement, sansTran))
    \/ /\ Resumes("row_count_is_0", 1)
       /\ LET num_rows == results[1].count
          IN  IF row_count_is_0_fails(num_rows)
              THEN Raise("AssertionError",
                         <<"Expected zero rows to be returned from '", call.target,
                           "' but got rows back. Number of rows returned was ",
                           ToString(num_rows)>>)
              ELSE Pass

\* The frame of a row-count comparison: its log entry and its row_count call.
\* `kw` and `flag` are the entry point the host invoked and the flag it gave;
\* `entries` is what the entry point logged before it called this frame.
RowCountFrame(kw, flag, entries, body, title, selectStatement, numRows, sansTran) ==
    Enter([kw |-> kw, body |-> body, target |-> selectStatement, ids |-> <<>>,
           n |-> numRows, sansTran |-> flag],
          Append(entries, <<"Executing : " \o title \o "  |  ", selectStatement, "  |  ",
                            ArgText(numRows), " ">>),
          ExecCall("row_count", selectStatement, sansTran))

\* The comparison of a row-count frame: `fails` holds when the count does not
\* stand in the expected relation to the target.
RowCountCompare(coerced, fails, words) ==
    IF coerced.err # "none" THEN Raise(coerced.err, <<>>)
    ELSE IF fails
    THEN Raise("AssertionError",
               <<"Expected " \o words \o " to be returned from '", call.target,
                 "' than the returned rows of ", ToString(results[1].count)>>)
    ELSE Pass

row_count_is_equal_to_x_fails(num_rows, n) == num_rows # n

row_count_is_equal_to_x ==
    \/ \E selectStatement \in Statements, numRows \in NumRowsArgs, sansTran \in BOOLEAN :
        RowCountFrame("row_count_is_equal_to_x", sansTran, <<>>,
                      "row_count_is_equal_to_x", "Row Count Is Equal To X",
                      selectStatement, numRows, sansTran)
    \/ /\ Resumes("row_count_is_equal_to_x", 1)
       /\ LET coerced == int_encode_ascii(call.n)
          IN  RowCountCompare(coerced,
                              row_count_is_equal_to_x_fails(results[1].count, coerced.val),
                              "same number of rows")

\* A faulty variant: a count equal to the target is let through.
row_count_is_greater_than_x_fails_off_by_one(num_rows, n) == num_rows < n

row_count_is_greater_than_x_fails(num_rows, n) == num_rows <= n

row_count_is_greater_than_x ==
    \/ \E selectStatement \in Statements, numRows \in NumRowsArgs, sansTran \in BOOLEAN :
        RowCountFrame("row_count_is_greater_than_x", sansTran, <<>>,
                      "row_count_is_greater_than_x", "Row Count Is Greater Than X",
                      selectStatement, numRows, sansTran)
    \/ /\ Resumes("row_count_is_greater_than_x", 1)
       /\ LET coerced == int_encode_ascii(call.n)
          IN  RowCountCompare(coerced,
                              row_count_is_greater_than_x_fails(results[1].count, coerced.val),
                              "more rows")

row_count_is_less_than_x_fails(num_rows, n) == num_rows >= n

row_count_is_less_than_x ==
    \/ \E selectStatement \in Statements, numRows \in NumRowsArgs, sansTran \in BOOLEAN :
        RowCountFrame("row_count_is_less_than_x", sansTran, <<>>,
                      "row_count_is_less_than_x", "Row Count Is Less Than X",
                      selectStatement, numRows, sansTran)
    \/ /\ Resumes("row_count_is_less_than_x", 1)
       /\ LET coerced == int_encode_ascii(call.n)
          IN  RowCountCompare(coerced,
                              row_count_is_less_than_x_fails(results[1].count, coerced.val),
                              "less rows")

-----------------------------------------------------------------------------
(* Keywords that read a script file and hand its text to a row-count       *)
(* comparison.  open_sql either returns the file's text or raises.         *)

script_row_count_is_greater_than_x ==
    \E sqlScriptFileName \in ScriptNames, numRows \in NumRowsArgs, sansTran \in BOOLEAN :
        \/ \E selectStatement \in Statements :
            RowCountFrame("script_row_count_is_greater_than_x", sansTran, <<>>,
                          "row_count_is_greater_than_x", "Row Count Is Greater Than X",
                          selectStatement, numRows, FALSE)
        \/ EndAtOnce([kw |-> "script_row_count_is_greater_than_x",
                      body |-> "script_row_count_is_greater_than_x",
                      target |-> sqlScriptFileName, ids |-> <<>>, n |-> numRows, sansTran |-> sansTran],
                     <<>>, "IOError", <<>>)

script_row_count_is_equal_to_x ==
    \E sqlScriptFileName \in ScriptNames, numRows \in NumRowsArgs, sansTran \in BOOLEAN :
        \/ \E selectStatement \in Statements :
            RowCountFrame("script_row_count_is_equal_to_x", sansTran, <<>>,
                          "row_count_is_equal_to_x", "Row Count Is Equal To X",
                          selectStatement, numRows, FALSE)
        \/ EndAtOnce([kw |-> "script_row_count_is_equal_to_x",
                      body |-> "script_row_count_is_equal_to_x",
                      target |-> sqlScriptFileName, ids |-> <<>>, n |-> numRows, sansTran |-> sansTran],
                     <<>>, "IOError", <<>>)

-----------------------------------------------------------------------------
(* Counts of a table, handed to row_count_is_equal_to_x.                   *)

SchemaNames == {"dwh"}
KeyNames == {"id"}

count_specific_table ==
    \E schema_name \in SchemaNames, table_name \in TableNames, num_rows \in NumRowsArgs :
        LET query == "SELECT COUNT(*) FROM " \o schema_name \o "." \o table_name
        IN  RowCountFrame("count_specific_table", FALSE,
                          << <<"Executing : Count for specific table: |  ", table_name, " ">> >>,
                          "row_count_is_equal_to_x", "Row Count Is Equal To X",
                          query, num_rows, FALSE)

count_unique_rows_table2 ==
    \E schema_name \in SchemaNames, table_name \in TableNames, unique_key \in KeyNames,
       num_rows \in NumRowsArgs :
        LET uniqueRows == "SELECT COUNT(DISTINCT " \o unique_key \o ") FROM "
                              \o schema_name \o "." \o table_name
        IN  RowCountFrame("count_unique_rows_table2", FALSE,
                          << <<"Executing : Count (unique rows) for table: |  ", table_name, " ">> >>,
                          "row_count_is_equal_to_x", "Row Count Is Equal To X",
                          uniqueRows, num_rows, FALSE)

-----------------------------------------------------------------------------
(* Schema existence check.                                                 *)

\* A faulty variant: the second DB2 driver name is missing from the list.
table_must_exist_statement_one_db2(driver, tableName) ==
    IF driver \in {"cx_Oracle"}
    THEN "SELECT * FROM all_objects WHERE object_type IN ('TABLE','VIEW') AND owner = SYS_CONTEXT('USERENV', 'SESSION_USER') AND object_name = UPPER('"
             \o tableName \o "')"
    ELSE IF driver \in {"sqlite3"}
    THEN "SELECT name FROM sqlite_master WHERE type='table' AND name='"
             \o tableName \o "' COLLATE NOCASE"
    ELSE IF driver \in {"ibm_db"}
    THEN "SELECT name FROM SYSIBM.SYSTABLES WHERE type='T' AND name=UPPER('"
             \o tableName \o "')"
    ELSE "SELECT * FROM information_schema.tables WHERE table_name='"
             \o tableName \o "'"

\* The introspection query, selected by the driver's name.
table_must_exist_statement(driver, tableName) ==
    IF driver \in {"cx_Oracle"}
    THEN "SELECT * FROM all_objects WHERE object_type IN ('TABLE','VIEW') AND owner = SYS_CONTEXT('USERENV', 'SESSION_USER') AND object_name = UPPER('"
             \o tableName \o "')"
    ELSE IF driver \in {"sqlite3"}
    THEN "SELECT name FROM sqlite_master WHERE type='table' AND name='"
             \o tableName \o "' COLLATE NOCASE"
    ELSE IF driver \in {"ibm_db", "ibm_db_dbi"}
    THEN "SELECT name FROM SYSIBM.SYSTABLES WHERE type='T' AND name=UPPER('"
             \o tableName \o "')"
    ELSE "SELECT * FROM information_schema.tables WHERE table_name='"
             \o tableName \o "'"

table_must_exist ==
    \/ \E tableName \in TableNames, sansTran \in BOOLEAN :
        Enter([kw |-> "table_must_exist", body |-> "table_must_exist",
               target |-> tableName, ids |-> <<>>, n |-> NoArg, sansTran |-> sansTran],
              << <<"Executing : Table Must Exist  |  ", tableName, " ">> >>,
              ExecCall("row_count",
                       table_must_exist_statement(db_api_module_name, tableName),
                       sansTran))
    \/ /\ Resumes("table_must_exist", 1)
       /\ LET num_rows == results[1].count
          IN  IF num_rows = 0
              THEN Raise("AssertionError",
                         <<"Table '", call.target, "' does not exist in the db">>)
              ELSE Pass

-----------------------------------------------------------------------------
(* Structural comparison checks.                                           *)

TestSchemas == {"STAGE"}
ResultSchemas == {"EXPECTED"}
ResultTables == {"person_expected"}
CompareTables == {"CRM"}

compare_table_structure_snowflake ==
    \/ \E script \in ScriptNames, test_schema_name \in TestSchemas,
          test_table_name \in TableNames, result_schema_name \in ResultSchemas,
          result_table_name \in ResultTables :
        Enter([kw |-> "compare_table_structure_snowflake",
               body |-> "compare_table_structure_snowflake",
               target |-> test_table_name,
               ids |-> <<test_schema_name, result_schema_name, result_table_name>>,
               n |-> NoArg, sansTran |-> FALSE],
              << <<"Executing : Compare Table Structure for table |  ", test_table_name, " ">> >>,
              ExecCall("execute_sql_script", script, FALSE))
    \/ /\ Resumes("compare_table_structure_snowflake", 1)
       /\ LET test_schema_name == call.ids[1]
              result_schema_name == call.ids[2]
              result_table_name == call.ids[3]
              query == "select * from information_schema.columns columns_left full outer join information_schema.columns columns_right on columns_left.column_name = columns_right.column_name where columns_left.table_schema = '"
                            \o test_schema_name \o "' and columns_left.table_name = '"
                            \o call.target \o "' and columns_right.table_schema = '"
                            \o result_schema_name \o "' and columns_right.table_name = '"
                            \o result_table_name
                            \o "' and (columns_left.data_type <> columns_right.data_type or columns_left.ordinal_position <> columns_right.ordinal_position)"
          IN  Issue(<<>>, ExecCall("row_count", query, FALSE))
    \/ /\ Resumes("compare_table_structure_snowflake", 2)
       /\ LET num_rows == results[2].count
          IN  IF num_rows > 0
              THEN Raise("AssertionError",
                         <<"Table structure of table '", call.target,
                           "' does not match expected result. The number of faulty columns is '",
                           ToString(num_rows), "'">>)
              ELSE Pass

compare_table_structure ==
    \/ \E test_table_name \in TableNames, schema_name \in SchemaNames,
          compare_table_name \in CompareTables :
        LET query == "WITH DB AS (SELECT TABLE_NAME,COLUMN_NAME,DATA_TYPE FROM ALL_TAB_COLUMNS WHERE OWNER = '"
                         \o schema_name \o "' AND TABLE_NAME IN ('" \o test_table_name
                         \o "')), " \o compare_table_name
                         \o "_VW_STRUC AS (SELECT * FROM EDW_TALEND." \o compare_table_name
                         \o "_VIEW_STRUCTURE WHERE TABLE_NAME = REPLACE('" \o test_table_name
                         \o "', 'VW_AVALOQ_" \o compare_table_name
                         \o "_', '')) SELECT * FROM DB FULL OUTER JOIN " \o compare_table_name
                         \o "_VW_STRUC ON " \o compare_table_name
                         \o "_VW_STRUC.COLUMN_NAME = DB.COLUMN_NAME WHERE DB.COLUMN_NAME IS NULL OR "
                         \o compare_table_name \o "_VW_STRUC.COLUMN_NAME IS NULL"
        IN  Enter([kw |-> "compare_table_structure", body |-> "compare_table_structure",
                   target |-> test_table_name, ids |-> <<>>, n |-> NoArg, sansTran |-> FALSE],
                  << <<"Executing : Compare Table Structure for table |  ", test_table_name, " ">> >>,
                  ExecCall("row_count", query, FALSE))
    \/ /\ Resumes("compare_table_structure", 1)
       /\ LET num_rows == results[1].count
          IN  IF num_rows > 0
              THEN Raise("AssertionError",
                         <<"Table structure of table '", call.target,
                           "' does not match expected result. The number of faulty columns is '",
                           ToString(num_rows), "'">>)
              ELSE Pass

\* A faulty variant: a single faulty row is tolerated.
check_query_result_fails_above_one(num_rows) == num_rows > 1

check_query_result_fails(num_rows) == num_rows > 0

check_query_result ==
    \/ \E script \in ScriptNames, test_schema_name \in TestSchemas,
          test_table_name \in TableNames, result_schema_name \in ResultSchemas,
          result_table_name \in ResultTables, sansTrans \in BOOLEAN :
        Enter([kw |-> "check_query_result", body |-> "check_query_result",
               target |-> script,
               ids |-> <<test_schema_name, test_table_name, result_schema_name,
                         result_table_name>>,
               n |-> NoArg, sansTran |-> sansTrans],
              << <<"Executing : Compare Query Result |  ", script, " ">> >>,
              ExecCall("execute_sql_script", script, FALSE))
    \/ /\ Resumes("check_query_result", 1)
       /\ Issue(<<>>, ExecCall("compare_tables",
                                call.ids[1] \o "." \o call.ids[2] \o ","
                                    \o call.ids[3] \o "." \o call.ids[4],
                                FALSE))
    \/ /\ Resumes("check_query_result", 2)
       /\ LET num_rows == results[2].count
          IN  IF check_query_result_fails(num_rows)
              THEN Raise("AssertionError",
                         <<"Result of script '", call.target,
                           "' does not match expected result. The number of faulty rows is '",
                           ToString(num_rows), "'">>)
              ELSE Pass

-----------------------------------------------------------------------------
(* Scalar extraction: round(float('.'.join(str(elem) for elem in row))).   *)

RECURSIVE Pow10(_)
Pow10(k) == IF k = 0 THEN 1 ELSE 10 * Pow10(k - 1)

RECURSIVE JoinWithDot(_)
\* '.'.join(str(elem) for elem in row), as characters
JoinWithDot(row) ==
    IF Len(row) = 1 THEN DecimalChars(row[1])
    ELSE DecimalChars(Head(row)) \o <<".">> \o JoinWithDot(Tail(row))

DotPositions(s) == {i \in 1..Len(s) : s[i] = "."}

\* float(s) of digits with at most one '.', as the decimal int + num/den.
\* A double holds that decimal closely enough for round() to see the decimal
\* itself as long as it has fewer than 16 significant digits.
FloatOfChars(s) ==
    LET dots == DotPositions(s)
        p == CHOOSE i \in dots : TRUE
        whole == IF dots = {} THEN s ELSE SubSeq(s, 1, p - 1)
        frac == IF dots = {} THEN <<>> ELSE SubSeq(s, p + 1, Len(s))
    IN  IF Cardinality(dots) > 1 \/ ~AllDigits(whole \o frac)
        THEN NoDecimal("ValueError")
        ELSE Decimal(DigitsValue(whole, 0), DigitsValue(frac, 0), Pow10(Len(frac)))

\* round(x) of a float: to the nearest integer, a tie to the even one.
round(x) ==
    IF 2 * x.num < x.den THEN x.int
    ELSE IF 2 * x.num > x.den THEN x.int + 1
    ELSE IF x.int % 2 = 0 THEN x.int ELSE x.int + 1

RECURSIVE SumOf(_)
SumOf(row) == IF row = <<>> THEN 0 ELSE Head(row) + SumOf(Tail(row))

\* A faulty variant: the columns of the first row are added up.
ScalarFlattenSum(rows) ==
    IF rows = <<>> THEN Raises("IndexError") ELSE Converted(SumOf(rows[1]))

\* round(float('.'.join(str(elem) for elem in result[0])))
ScalarFlatten(rows) ==
    IF rows = <<>> THEN Raises("IndexError")
    ELSE LET x == FloatOfChars(JoinWithDot(rows[1]))
         IN  IF x.err # "none" THEN Raises(x.err) ELSE Converted(round(x))

\* The two extractions and the comparison that end a derived-scalar check:
\* `parts(a, b)` is the text logged and raised for the two numbers.
ScalarCompare(logged, parts(_, _)) ==
    LET first == ScalarFlatten(results[1].rows)
        second == ScalarFlatten(results[2].rows)
        text == parts(ToString(first.val), ToString(second.val))
        entries == IF logged THEN <<text>> ELSE <<>>
    IN  IF first.err # "none" THEN End(<<>>, <<>>, first.err, <<>>)
        ELSE IF second.err # "none" THEN End(<<>>, <<first.val>>, second.err, <<>>)
        ELSE IF first.val # second.val
        THEN End(entries, <<first.val, second.val>>, "AssertionError", text)
        ELSE End(entries, <<first.val, second.val>>, "pass", <<>>)

HelperCall(op, args) == ExecCall(op, args, FALSE)

ObjectRowsText(unique_key, uniqueRows, objectRows) ==
    <<"Object rows: '", objectRows, "', unique rows '", unique_key, "': '", uniqueRows, "'">>

FoundRowsText(unique_key, foreign_key, foundRows, uniqueRows) ==
    <<"Unique rows '", unique_key, "': '", uniqueRows, "', found rows '", foreign_key,
      "': '", foundRows, "'">>

ForeignTables == {"address"}
ForeignKeys == {"person_id"}
Arguments == {"id > 0"}

FieldArgs ==
    {StrArg(DecimalChars(i)) : i \in 0..3} \cup {StrArg(<<"x">>), IntArg(2)}

\* int(field)
int_of(field) ==
    IF field.type = "int" THEN Converted(field.int)
    ELSE IntOfBytes(field.chars)

-----------------------------------------------------------------------------
(* Derived-scalar comparisons.                                             *)

row_unique_check2 ==
    \/ \E count_key \in ScriptNames, count_total \in ScriptNames :
        \/ \E selectStatement1 \in Statements, selectStatement2 \in Statements :
            /\ cursors < MaxCursors
            /\ pc = "idle"
            /\ pc' = "wait"
            /\ cursors' = cursors + 1
            /\ call' = [kw |-> "row_unique_check2", body |-> "row_unique_check2",
                        target |-> selectStatement1, ids |-> <<selectStatement2>>,
                        n |-> NoArg, sansTran |-> FALSE]
            /\ log' = <<>>
            /\ trace' = <<ExecCall("query", selectStatement1, FALSE)>>
            /\ results' = <<>>
            /\ outcome' = "none"
            /\ message' = <<>>
            /\ scalars' = <<>>
            /\ UNCHANGED <<db_api_module_name, deployed, prev>>
        \/ EndAtOnce([kw |-> "row_unique_check2", body |-> "row_unique_check2",
                      target |-> count_key, ids |-> <<count_total>>, n |-> NoArg,
                      sansTran |-> FALSE],
                     <<>>, "IOError", <<>>)
    \/ /\ Resumes("row_unique_check2", 1)
       /\ Issue(<<>>, ExecCall("query", call.ids[1], FALSE))
    \/ /\ Resumes("row_unique_check2", 2)
       /\ LET parts(rowunique, objectrows) ==
                  <<"Key is not unique, total rows: '", objectrows, "', key rows: '",
                    rowunique, "'">>
          IN  ScalarCompare(FALSE, parts)

\* A faulty variant: field 2 asks for exactly two distinct values.
value_variance_check_below_exact(uniqueRows, field) == uniqueRows # field

\* the test of the branch int(field) == 2
value_variance_check_below(uniqueRows, field) == uniqueRows < field

value_variance_check ==
    \/ \E schema_name \in SchemaNames, table_name \in TableNames, unique_key \in KeyNames,
          field \in FieldArgs :
        Enter([kw |-> "value_variance_check", body |-> "value_variance_check",
               target |-> table_name, ids |-> <<schema_name, unique_key>>, n |-> field,
               sansTran |-> FALSE],
              << <<"Executing : Values variance check: |  ", table_name, " ">> >>,
              HelperCall("count_unique_rows_table",
                         schema_name \o ", " \o table_name \o ", " \o unique_key))
    \/ /\ Resumes("value_variance_check", 1)
       /\ LET flat == ScalarFlatten(results[1].rows)
              uniqueRows == flat.val
              field == int_of(call.n)
              expected == <<"Expected: '", ArgText(call.n), "'   Actual: '",
                            ToString(uniqueRows), "'">>
          IN  IF flat.err # "none" THEN End(<<>>, <<>>, flat.err, <<>>)
              ELSE IF field.err # "none" THEN End(<<>>, <<uniqueRows>>, field.err, <<>>)
              ELSE IF field.val = 0
              THEN IF uniqueRows # field.val
                   THEN End(<<>>, <<uniqueRows>>, "AssertionError", expected)
                   ELSE End(<<>>, <<uniqueRows>>, "pass", <<>>)
              ELSE IF field.val = 1
              THEN IF uniqueRows # field.val
                   THEN End(<<>>, <<uniqueRows>>, "AssertionError", expected)
                   ELSE End(<<>>, <<uniqueRows>>, "pass", <<>>)
              ELSE IF field.val = 2
              THEN IF value_variance_check_below(uniqueRows, field.val)
                   THEN End(<<>>, <<uniqueRows>>, "AssertionError", expected)
                   ELSE End(<<>>, <<uniqueRows>>, "pass", <<>>)
              ELSE End(<<>>, <<uniqueRows>>, "AssertionError",
                       <<"Check 4th argument in TC, expected value 0, 1 or 2">>)

row_unique_check ==
    \/ \E schema_name \in SchemaNames, table_name \in TableNames, unique_key \in KeyNames :
        Enter([kw |-> "row_unique_check", body |-> "row_unique_check",
               target |-> table_name, ids |-> <<schema_name, unique_key>>, n |-> NoArg,
               sansTran |-> FALSE],
              << <<"Executing : Row unique check for table: |  ", table_name, " ">> >>,
              HelperCall("count_unique_rows_table",
                         schema_name \o ", " \o table_name \o ", " \o unique_key))
    \/ /\ Resumes("row_unique_check", 1)
       /\ Issue(<<>>, HelperCall("count_object_rows_table",
                                 call.ids[1] \o ", " \o call.target))
    \/ /\ Resumes("row_unique_check", 2)
       /\ LET parts(uniqueRows, objectRows) ==
                  ObjectRowsText(call.ids[2], uniqueRows, objectRows)
          IN  ScalarCompare(TRUE, parts)

row_unique_check_argument ==
    \/ \E schema_name \in SchemaNames, table_name \in TableNames, unique_key \in KeyNames,
          argument \in Arguments :
        Enter([kw |-> "row_unique_check_argument", body |-> "row_unique_check_argument",
               target |-> table_name, ids |-> <<schema_name, unique_key, argument>>,
               n |-> NoArg, sansTran |-> FALSE],
              << <<"Executing : Row unique check for table: |  ", table_name, " ">> >>,
              HelperCall("count_unique_rows_table",
                         schema_name \o ", " \o table_name \o ", " \o unique_key))
    \/ /\ Resumes("row_unique_check_argument", 1)
       /\ Issue(<<>>, HelperCall("count_object_rows_table_argument",
                                 call.ids[1] \o ", " \o call.target \o ", " \o call.ids[3]))
    \/ /\ Resumes("row_unique_check_argument", 2)
       /\ LET parts(uniqueRows, objectRows) ==
                  ObjectRowsText(call.ids[2], uniqueRows, objectRows)
          IN  ScalarCompare(TRUE, parts)

\* The four found-rows checks differ in the helpers they call and in the
\* arguments they hand them: ids is <<schema_name, unique_key,
\* foreign_table_name, foreign_key, argument>>.
FoundArgs(c) ==
    c.ids[1] \o ", " \o c.target \o ", " \o c.ids[2] \o ", " \o c.ids[3] \o ", " \o c.ids[4]

UniqueArgs(c) == c.ids[1] \o ", " \o c.target \o ", " \o c.ids[2]

DimensionalCheck(kw, foundCall(_), uniqueCall(_)) ==
    \/ \E schema_name \in SchemaNames, table_name \in TableNames, unique_key \in KeyNames,
          foreign_table_name \in ForeignTables, foreign_key \in ForeignKeys,
          argument \in Arguments :
        LET c == [kw |-> kw, body |-> kw, target |-> table_name,
                  ids |-> <<schema_name, unique_key, foreign_table_name, foreign_key,
                            argument>>,
                  n |-> NoArg, sansTran |-> FALSE]
        IN  Enter(c,
                  << <<"Executing : Dimensional integrity check: | Between tables ",
                       table_name, " and ", foreign_table_name>> >>,
                  foundCall(c))
    \/ /\ Resumes(kw, 1)
       /\ Issue(<<>>, uniqueCall(call))
    \/ /\ Resumes(kw, 2)
       /\ LET parts(foundRows, uniqueRows) ==
                  FoundRowsText(call.ids[2], call.ids[4], foundRows, uniqueRows)
          IN  ScalarCompare(TRUE, parts)

dimensional_integrity_check_found ==
    LET foundCall(c) == HelperCall("count_found_rows_table", FoundArgs(c))
        uniqueCall(c) == HelperCall("count_unique_rows_table", UniqueArgs(c))
    IN  DimensionalCheck("dimensional_integrity_check_found", foundCall, uniqueCall)

dimensional_integrity_check_found_joinArgument ==
    LET foundCall(c) == HelperCall("count_found_rows_table_argument",
                                   FoundArgs(c) \o ", " \o c.ids[5])
        uniqueCall(c) == HelperCall("count_unique_rows_table", UniqueArgs(c))
    IN  DimensionalCheck("dimensional_integrity_check_found_joinArgument",
                         foundCall, uniqueCall)

dimensional_integrity_check_found_argument ==
    LET foundCall(c) == HelperCall("count_found_rows_table", FoundArgs(c))
        uniqueCall(c) == HelperCall("count_unique_rows_table_argument",
                                    UniqueArgs(c) \o ", " \o c.ids[5])
    IN  DimensionalCheck("dimensional_integrity_check_found_argument",
                         foundCall, uniqueCall)

dimensional_integrity_check_found_withClause_argument ==
    LET foundCall(c) == HelperCall("count_found_rows_table_withClause", FoundArgs(c))
        uniqueCall(c) == HelperCall("count_unique_rows_table_argument",
                                    UniqueArgs(c) \o ", " \o c.ids[5])
    IN  DimensionalCheck("dimensional_integrity_check_found_withClause_argument",
                         foundCall, uniqueCall)

dimensional_integrity_check_potential ==
    \/ \E schema_name \in SchemaNames, table_name \in TableNames, unique_key \in KeyNames,
          foreign_key \in ForeignKeys :
        Enter([kw |-> "dimensional_integrity_check_potential",
               body |-> "dimensional_integrity_check_potential",
               target |-> table_name, ids |-> <<schema_name, unique_key, foreign_key>>,
               n |-> NoArg, sansTran |-> FALSE],
              << <<"Executing : Dimensional integrity check: | ", table_name>> >>,
              HelperCall("count_unique_rows_table",
                         schema_name \o ", " \o table_name \o ", " \o foreign_key))
    \/ /\ Resumes("dimensional_integrity_check_potential", 1)
       /\ Issue(<<>>, HelperCall("count_unique_rows_table", UniqueArgs(call)))
    \/ /\ Resumes("dimensional_integrity_check_potential", 2)
       /\ LET parts(potentialRows, uniqueRows) ==
                  FoundRowsText(call.ids[2], call.ids[3], potentialRows, uniqueRows)
          IN  ScalarCompare(TRUE, parts)

-----------------------------------------------------------------------------
(* IEEE-754 double arithmetic, as Python's float does it.  A positive      *)
(* double is a 53-bit significand times a power of two; the significand is *)
(* kept as its bits, least significant first.  Every operation rounds the  *)
(* exact result to the nearest double, a tie to the even significand.      *)

SignificandBits == 53

RECURSIVE NatBits(_)
NatBits(n) == IF n = 0 THEN <<>> ELSE <<n % 2>> \o NatBits(n \div 2)

\* the k low bits of v
LowBits(v, k) == [i \in 1..k |-> (v \div 2^(i - 1)) % 2]

RECURSIVE BitsValue(_)
BitsValue(bits) == IF bits = <<>> THEN 0 ELSE Head(bits) + 2 * BitsValue(Tail(bits))

RECURSIVE MulSmall(_, _, _)
\* bits * c + carry, eleven bits at a time
MulSmall(bits, c, carry) ==
    IF bits = <<>> THEN NatBits(carry)
    ELSE LET k == IF Len(bits) < 11 THEN Len(bits) ELSE 11
             t == BitsValue(SubSeq(bits, 1, k)) * c + carry
         IN  LowBits(t % 2^k, k) \o MulSmall(SubSeq(bits, k + 1, Len(bits)), c, t \div 2^k)

RECURSIVE Trim(_)
Trim(bits) ==
    IF bits # <<>> /\ bits[Len(bits)] = 0 THEN Trim(SubSeq(bits, 1, Len(bits) - 1))
    ELSE bits

ShiftLeft(bits, k) == [i \in 1..k |-> 0] \o bits

RECURSIVE Increment(_)
Increment(bits) ==
    IF bits = <<>> THEN <<1>>
    ELSE IF Head(bits) = 0 THEN <<1>> \o Tail(bits)
    ELSE <<0>> \o Increment(Tail(bits))

\* a > b, for bit strings of one length: they differ, and a has the 1 where
\* they differ first from the top
GreaterFrom(a, b) ==
    \E i \in 1..Len(a) :
        a[i] > b[i] /\ \A j \in (i + 1)..Len(a) : a[j] = b[j]

\* a > b, for bit strings without leading zeros
GreaterBits(a, b) ==
    IF Len(a) # Len(b) THEN Len(a) > Len(b) ELSE GreaterFrom(a, b)

FloatZero == [m |-> <<>>, e |-> 0]

\* The double nearest to bits * 2^e, where `sticky` says that the exact value
\* lies strictly above bits * 2^e (and below (bits + 1) * 2^e).
RoundToDouble(bits, e, sticky) ==
    LET d == Len(bits) - SignificandBits
    IN  IF d <= 0 THEN [m |-> bits, e |-> e]
        ELSE LET kept == SubSeq(bits, d + 1, Len(bits))
                 guard == bits[d]
                 below == sticky \/ \E i \in 1..(d - 1) : bits[i] = 1
                 up == guard = 1 /\ (below \/ kept[1] = 1)
                 m == IF up THEN Increment(kept) ELSE kept
             IN  IF Len(m) > SignificandBits
                 THEN [m |-> Tail(m), e |-> e + d + 1]
                 ELSE [m |-> m, e |-> e + d]

RECURSIVE Normalise(_, _, _)
\* num / den * 2^k is unchanged and den <= num < 2 * den
Normalise(num, den, k) ==
    IF num >= 2 * den THEN Normalise(num, 2 * den, k + 1)
    ELSE IF num < den THEN Normalise(2 * num, den, k - 1)
    ELSE [num |-> num, den |-> den, k |-> k]

RECURSIVE DivBits(_, _, _, _)
\* n quotient bits of num / den by long division, eleven bits at a time, and
\* the remainder; num < 2 * den
DivBits(num, den, n, acc) ==
    IF n = 0 THEN [q |-> acc, rem |-> num]
    ELSE LET k == IF n < 11 THEN n ELSE 11
             quot == (num * 2^(k - 1)) \div den
         IN  DivBits(num * 2^k - 2 * quot * den, den, n - k, LowBits(quot, k) \o acc)

\* a / b for ints a >= 0, b > 0 (true division)
FloatDiv(a, b) ==
    IF a = 0 THEN FloatZero
    ELSE LET nm == Normalise(a, b, 0)
             d == DivBits(nm.num, nm.den, SignificandBits + 2, <<>>)
         IN  RoundToDouble(d.q, nm.k - (SignificandBits + 1), d.rem # 0)

\* x * c for a double x and a small int c
FloatMul(x, c) ==
    IF x.m = <<>> THEN FloatZero
    ELSE RoundToDouble(Trim(MulSmall(x.m, c, 0)), x.e, FALSE)

\* x > int + num/den for a double x
FloatGreater(x, p) ==
    LET lhs == Trim(MulSmall(x.m, p.den, 0))
        rhs == NatBits(p.int * p.den + p.num)
    IN  IF x.e >= 0 THEN GreaterBits(ShiftLeft(lhs, x.e), rhs)
        ELSE GreaterBits(lhs, IF rhs = <<>> THEN rhs ELSE ShiftLeft(rhs, 0 - x.e))

RECURSIVE BitText(_)
BitText(bits) ==
    IF bits = <<>> THEN ""
    ELSE IF Len(bits) = 1 THEN ToString(bits[1])
    ELSE LET half == Len(bits) \div 2
         IN  BitText(SubSeq(bits, half + 1, Len(bits))) \o BitText(SubSeq(bits, 1, half))

\* The text of a double in a message: its significand bits and exponent.
\* (Python prints the shortest decimal that reads back as the same double.)
FloatText(x) == "0b" \o BitText(x.m) \o "p" \o ToString(x.e)

-----------------------------------------------------------------------------
(* Threshold check.                                                        *)

\* Thresholds the host offers; all of them are doubles exactly.
PercentageArgs ==
    {StrArg(s) : s \in {<<"2", "0", ".", "0">>, <<"4", "0", ".", "0">>,
                        <<"5", "5", ".", "0">>, <<"5", "5">>, <<"5", "4", ".", "5">>,
                        <<"a", "b", "c">>}}

ColumnNames == {"last_name"}

\* float(percentage)
float_of(percentage) ==
    IF percentage.type = "int"
    THEN Decimal(percentage.int, 0, 1)
    ELSE FloatOfChars(percentage.chars)

\* (num_rows_columns/num_rows_total) * 100
percentage_calculated(num_rows_columns, num_rows_total) ==
    FloatMul(FloatDiv(num_rows_columns, num_rows_total), 100)

\* A faulty variant: no null row of an empty table counts as 0 percent.
percentage_raises_unless_no_nulls(num_rows_columns, num_rows_total) ==
    num_rows_total = 0 /\ num_rows_columns # 0

\* num_rows_columns/num_rows_total raises ZeroDivisionError
percentage_raises(num_rows_columns, num_rows_total) == num_rows_total = 0

count_empty_column_value_percentage ==
    \/ \E schema_name \in SchemaNames, table_name \in TableNames,
          column_name \in ColumnNames, percentage \in PercentageArgs :
        LET query_total == "SELECT * FROM " \o schema_name \o "." \o table_name
        IN  Enter([kw |-> "count_empty_column_value_percentage",
                   body |-> "count_empty_column_value_percentage",
                   target |-> table_name, ids |-> <<schema_name, column_name>>,
                   n |-> percentage, sansTran |-> FALSE],
                  <<>>,
                  ExecCall("row_count", query_total, FALSE))
    \/ /\ Resumes("count_empty_column_value_percentage", 1)
       /\ LET query_column == "SELECT * FROM " \o call.ids[1] \o "." \o call.target
                                  \o " WHERE " \o call.ids[2] \o " IS NULL"
          IN  Issue(<<>>, ExecCall("row_count", query_column, FALSE))
    \/ /\ Resumes("count_empty_column_value_percentage", 2)
       /\ LET num_rows_total == results[1].count
              num_rows_columns == results[2].count
              calculated == percentage_calculated(num_rows_columns, num_rows_total)
              threshold == float_of(call.n)
          IN  IF percentage_raises(num_rows_columns, num_rows_total)
              THEN Raise("ZeroDivisionError", <<>>)
              ELSE IF threshold.err # "none" THEN Raise(threshold.err, <<>>)
              ELSE IF FloatGreater(calculated, threshold)
              THEN Raise("AssertionError",
                         <<"Percentage of EMPTY columns is '", FloatText(calculated),
                           "' is higher than allow percentage '", ArgText(call.n), "'">>)
              ELSE Pass

-----------------------------------------------------------------------------
(* The Query Executor and the host.                                        *)

\* The aggregate statements the count keywords build.
AggregateStatements ==
    {"SELECT COUNT(*) FROM " \o schema_name \o "." \o table_name :
        schema_name \in SchemaNames, table_name \in TableNames}
    \cup {"SELECT COUNT(DISTINCT " \o unique_key \o ") FROM " \o schema_name \o "."
              \o table_name :
            unique_key \in KeyNames, schema_name \in SchemaNames, table_name \in TableNames}

\* An aggregate statement returns one row, which holds the number c it
\* counted; row_count reports the number of rows returned.
AggregateResult(c) == [kind |-> "count", count |-> 1, rows |-> << <<c>> >>]

\* The pending executor call returns.
ExecutorReturn(maxCount, rowSets) ==
    /\ pc = "wait"
    /\ LET ecall == trace[Len(trace)]
       IN  /\ \E r \in IF ecall.op = "row_count" /\ ecall.sql \in AggregateStatements
                       THEN {AggregateResult(c) : c \in 0..maxCount}
                       ELSE ResultDomain(ecall.op, maxCount, rowSets) :
                results' = Append(results, r)
           /\ deployed' = IF ecall.op = "execute_sql_script"
                          THEN deployed \cup {ecall.sql} ELSE deployed
    /\ pc' = "ready"
    /\ UNCHANGED <<db_api_module_name, cursors, prev, call, log, trace, outcome, message,
                   scalars>>

\* The pending executor call raises; no handler catches, so the invocation
\* ends with that error.  A script that fails may have run in part.
ExecutorRaise ==
    /\ pc = "wait"
    /\ LET ecall == trace[Len(trace)]
       IN  deployed' \in IF ecall.op = "execute_sql_script"
                         THEN {deployed, deployed \cup {ecall.sql}} ELSE {deployed}
    /\ pc' = "done"
    /\ outcome' = "ExecutorError"
    /\ message' = <<>>
    /\ UNCHANGED <<db_api_module_name, cursors, prev, call, log, trace, results, scalars>>

\* The host collects the outcome and goes on to its next keyword.
HostContinue(remember) ==
    /\ pc = "done"
    /\ pc' = "idle"
    /\ prev' = IF remember
               THEN [call |-> call, results |-> results, outcome |-> outcome]
               ELSE prev
    /\ call' = NoCall
    /\ log' = <<>>
    /\ trace' = <<>>
    /\ results' = <<>>
    /\ outcome' = "none"
    /\ message' = <<>>
    /\ scalars' = <<>>
    /\ UNCHANGED <<db_api_module_name, deployed, cursors>>

-----------------------------------------------------------------------------

Init ==
    /\ db_api_module_name \in DriverNames
    /\ deployed = {}
    /\ cursors = 0
    /\ pc = "idle"
    /\ call = NoCall
    /\ log = <<>>
    /\ trace = <<>>
    /\ results = <<>>
    /\ outcome = "none"
    /\ message = <<>>
    /\ scalars = <<>>
    /\ prev = NoPrev

Next ==
    \/ check_if_exists_in_database
    \/ check_if_not_exists_in_database
    \/ row_count_is_0
    \/ row_count_is_equal_to_x
    \/ row_count_is_greater_than_x
    \/ row_count_is_less_than_x
    \/ script_row_count_is_greater_than_x
    \/ script_row_count_is_equal_to_x
    \/ count_specific_table
    \/ count_unique_rows_table2
    \/ table_must_exist
    \/ compare_table_structure_snowflake
    \/ compare_table_structure
    \/ check_query_result
    \/ count_empty_column_value_percentage
    \/ row_unique_check2
    \/ value_variance_check
    \/ row_unique_check
    \/ row_unique_check_argument
    \/ dimensional_integrity_check_found
    \/ dimensional_integrity_check_found_joinArgument
    \/ dimensional_integrity_check_found_argument
    \/ dimensional_integrity_check_found_withClause_argument
    \/ dimensional_integrity_check_potential
    \/ ExecutorReturn(MaxRows, RowSets(MaxCol, MaxCol))
    \/ ExecutorRaise
    \/ HostContinue(FALSE)

Spec == Init /\ [][Next]_vars

\* The derived-scalar checks over rows wide enough for the decimal point to
\* matter, on one driver.
InitFlatten == Init /\ db_api_module_name = "psycopg2"

NextFlatten ==
    \/ row_unique_check2
    \/ value_variance_check
    \/ row_unique_check
    \/ row_unique_check_argument
    \/ dimensional_integrity_check_found
    \/ dimensional_integrity_check_found_joinArgument
    \/ dimensional_integrity_check_found_argument
    \/ dimensional_integrity_check_found_withClause_argument
    \/ dimensional_integrity_check_potential
    \/ ExecutorReturn(MaxRows, RowSets(MaxInt, MaxFrac))
    \/ ExecutorRaise
    \/ HostContinue(FALSE)

SpecFlatten == InitFlatten /\ [][NextFlatten]_vars

\* The threshold check over tables of up to MaxTotal rows.
NextPercentage ==
    \/ count_empty_column_value_percentage
    \/ ExecutorReturn(MaxTotal, RowSets(MaxCol, MaxCol))
    \/ ExecutorRaise
    \/ HostContinue(FALSE)

SpecPercentage == Init /\ [][NextPercentage]_vars

\* Checks of one, two and script-then-compare round trips, with the host
\* remembering the invocation it collected last.
NextRepeat ==
    \/ row_count_is_0
    \/ check_if_exists_in_database
    \/ count_empty_column_value_percentage
    \/ check_query_result
    \/ ExecutorReturn(MaxRows, RowSets(MaxCol, MaxCol))
    \/ ExecutorRaise
    \/ HostContinue(TRUE)

SpecRepeat == InitFlatten /\ [][NextRepeat]_vars

-----------------------------------------------------------------------------
(* Properties.                                                             *)

\* The invocation of one of `kws` has ended, and not in an executor error.
Ended(kws) == pc = "done" /\ call.kw \in kws /\ outcome # "ExecutorError"

Verdicts == {"pass", "AssertionError"}

\* C1: on a result with at least one row check_if_exists_in_database returns
\* silently and check_if_not_exists_in_database raises AssertionError; on a
\* result with no row check_if_exists_in_database raises AssertionError with
\* the query text and "0 rows" in its message and
\* check_if_not_exists_in_database returns silently.
C1_ExistenceChecks ==
    /\ Ended({"check_if_exists_in_database"}) =>
        IF Len(results[1].rows) >= 1
        THEN outcome = "pass" /\ message = <<>>
        ELSE /\ outcome = "AssertionError"
             /\ call.target \in Range(message)
             /\ "' but got 0 rows." \in Range(message)
    /\ Ended({"check_if_not_exists_in_database"}) =>
        IF Len(results[1].rows) >= 1
        THEN outcome = "AssertionError"
        ELSE outcome = "pass" /\ message = <<>>

C1_Witness ==
    /\ Ended({"check_if_exists_in_database"})
    /\ call.target = "SELECT id FROM person WHERE first_name = 'John'"
    /\ results[1].rows = <<>>
    /\ outcome = "AssertionError"

\* The integer a numeric string of NumericStrings spells.
NumericValue(chars) ==
    CASE chars = <<"-", "1">> -> 0 - 1
      [] chars = <<"+", "2">> -> 2
      [] chars = <<"0", "2">> -> 2
      [] chars = <<"1", "0">> -> 10
      [] OTHER -> CHOOSE i \in 0..MaxTarget : DecimalChars(i) = chars

RowCountComparisons ==
    {"row_count_is_equal_to_x", "row_count_is_greater_than_x", "row_count_is_less_than_x"}

C3_TableMustExistDispatch ==
    call.kw = "table_must_exist" =>
        /\ Len(trace) = 1
        /\ trace[1].op = "row_count"
        /\ trace[1].sql =
            (CASE db_api_module_name = "sqlite3" ->
                    "SELECT name FROM sqlite_master WHERE type='table' AND name='"
                        \o call.target \o "' COLLATE NOCASE"
               [] db_api_module_name = "cx_Oracle" ->
                    "SELECT * FROM all_objects WHERE object_type IN ('TABLE','VIEW') AND owner = SYS_CONTEXT('USERENV', 'SESSION_USER') AND object_name = UPPER('"
                        \o call.target \o "')"
               [] db_api_module_name \in {"ibm_db", "ibm_db_dbi"} ->
                    "SELECT name FROM SYSIBM.SYSTABLES WHERE type='T' AND name=UPPER('"
                        \o call.target \o "')"
               [] OTHER ->
                    "SELECT * FROM information_schema.tables WHERE table_name='"
                        \o call.target \o "'")
        /\ Ended({"table_must_exist"}) =>
            /\ outcome \in Verdicts
            /\ outcome = "AssertionError" <=> results[1].count = 0

C3_Witness ==
    /\ Ended({"table_must_exist"})
    /\ db_api_module_name = "ibm_db_dbi"
    /\ results[1].count = 0
    /\ outcome = "AssertionError"

FlattenKeywords ==
    {"row_unique_check2", "value_variance_check", "row_unique_check",
     "row_unique_check_argument", "dimensional_integrity_check_found",
     "dimensional_integrity_check_found_joinArgument",
     "dimensional_integrity_check_found_argument",
     "dimensional_integrity_check_found_withClause_argument",
     "dimensional_integrity_check_potential"}

\* the number of decimal digits of b
DigitCount(b) == CHOOSE k \in 1..9 : b < Pow10(k) /\ (k > 1 => b >= Pow10(k - 1))

\* s is an integer nearest to the decimal a.b
NearestToDecimal(s, a, b) ==
    LET scale == Pow10(DigitCount(b))
        diff == s * scale - (a * scale + b)
    IN  2 * (IF diff < 0 THEN 0 - diff ELSE diff) <= scale

\* C4: the number a derived-scalar check extracts from the first row of a
\* result is a for a one-column row (a,), and for a two-column row (a, b) an
\* integer nearest to the decimal a.b: 3 for (3, 14), not 17.
C4_ScalarFlatten ==
    (pc = "done" /\ call.kw \in FlattenKeywords) =>
        /\ outcome \in Verdicts => Len(scalars) = Len(results)
        /\ \A i \in 1..Len(scalars) :
            LET row == results[i].rows[1]
            IN  /\ Len(row) = 1 => scalars[i] = row[1]
                /\ Len(row) = 2 => NearestToDecimal(scalars[i], row[1], row[2])
                /\ row = <<3, 14>> => scalars[i] = 3

C4_Witness ==
    /\ Ended({"row_unique_check"})
    /\ results[1].rows = << <<3, 14>> >>
    /\ results[2].rows = << <<3>> >>
    /\ scalars = <<3, 3>>
    /\ outcome = "pass"

\* C5: for T > 0 total rows, N <= T null rows and threshold P,
\* count_empty_column_value_percentage raises AssertionError iff N / T * 100
\* is greater than P, and returns silently otherwise.
C5_PercentageThreshold ==
    (/\ Ended({"count_empty_column_value_percentage"})
     /\ Len(results) = 2
     /\ results[1].count > 0
     /\ results[2].count <= results[1].count
     /\ float_of(call.n).err = "none")
    => LET T == results[1].count
           N == results[2].count
           P == float_of(call.n)
       IN  /\ outcome \in Verdicts
           /\ outcome = "AssertionError"
                <=> 100 * N * P.den > (P.int * P.den + P.num) * T

FlagKeywords ==
    {"check_if_exists_in_database", "check_if_not_exists_in_database", "row_count_is_0",
     "row_count_is_equal_to_x", "row_count_is_greater_than_x", "row_count_is_less_than_x",
     "table_must_exist", "script_row_count_is_greater_than_x",
     "script_row_count_is_equal_to_x", "check_query_result"}

\* C6: every entry point has logged an entry before its first executor call,
\* and ends by returning silently or by raising.
C6_LogBeforeFirstCall ==
    /\ trace # <<>> => trace[1].logged >= 1
    /\ pc = "done" => outcome # "none"

\* C7: every executor call of an entry point that takes the skip-transaction
\* flag runs with the flag the caller gave.
C7_FlagReachesExecutor ==
    call.kw \in FlagKeywords =>
        \A i \in 1..Len(trace) : trace[i].sansTran = call.sansTran

\* numRows is an integer value or a numeric string
Coercible(numRows) ==
    numRows.type = "int" \/ (numRows.type = "str" /\ numRows.chars \in NumericStrings)

\* C8: a row-count comparison accepts and compares every target that is an
\* integer value or a numeric string; any other target ends the invocation
\* with the coercion error, after the one row_count call.
C8_NumericArgument ==
    Ended(RowCountComparisons) =>
        IF Coercible(call.n) THEN outcome \in Verdicts
        ELSE outcome = "ValueError" /\ Len(trace) = 1 /\ Len(results) = 1

DeployKeywords == {"compare_table_structure_snowflake", "check_query_result"}

\* C9: compare_table_structure_snowflake and check_query_result run the
\* script once and first; the comparison is issued only after the script
\* returned, and never if it raised; a comparison count above 0 raises
\* AssertionError with nothing issued after the comparison and the script's
\* effects still in the database; the check passes iff the count is 0.
C9_DeployThenCompare ==
    call.kw \in DeployKeywords =>
        /\ Len(trace) \in 1..2
        /\ trace[1].op = "execute_sql_script"
        /\ Len(trace) = 2 =>
            /\ trace[2].op \in {"row_count", "compare_tables"}
            /\ Len(results) >= 1
            /\ trace[1].sql \in deployed
        /\ (pc = "done" /\ Len(results) = 0) =>
            outcome = "ExecutorError" /\ Len(trace) = 1
        /\ (pc = "done" /\ Len(results) = 2) =>
            /\ outcome \in Verdicts
            /\ outcome = "pass" <=> results[2].count = 0
            /\ trace[1].sql \in deployed

C9_Witness ==
    /\ Ended({"check_query_result"})
    /\ results[2].count = 1
    /\ outcome = "AssertionError"
    /\ Len(trace) = 2
    /\ trace[1].sql \in deployed

\* the number of executor round trips of a check
RoundTrips(kw) ==
    IF kw \in {"row_count_is_0", "check_if_exists_in_database"} THEN 1 ELSE 2

\* C10: a check sends each of its queries once, one after the other's
\* return, and a verdict (pass or AssertionError) comes after all of them and
\* ends the invocation; a check invoked again with the same arguments runs
\* all its queries again, and two invocations with the same arguments and the
\* same executor results end the same way.
C10_NoRetryNoCaching ==
    /\ pc = "wait" => Len(trace) = Len(results) + 1
    /\ pc = "ready" => Len(trace) = Len(results)
    /\ \A i, j \in 1..Len(trace) : i # j => trace[i].sql # trace[j].sql
    /\ pc # "idle" => Len(trace) <= RoundTrips(call.kw)
    /\ (pc = "done" /\ outcome \in Verdicts) =>
        Len(trace) = RoundTrips(call.kw) /\ Len(results) = RoundTrips(call.kw)
    /\ (pc = "done" /\ prev.call = call /\ prev.results = results) =>
        prev.outcome = outcome

C10_Witness ==
    /\ pc = "done"
    /\ call.kw = "count_empty_column_value_percentage"
    /\ prev.call = call
    /\ prev.outcome = "pass"
    /\ outcome = "AssertionError"
    /\ Len(trace) = 2

\* C11: when the total-rows query of count_empty_column_value_percentage
\* reports 0 rows the invocation ends in ZeroDivisionError, whatever the
\* threshold, after the total-rows query and then the null-rows query have
\* both been executed.
C11_DivisionByZero ==
    (/\ pc = "done"
     /\ call.kw = "count_empty_column_value_percentage"
     /\ Len(results) >= 1
     /\ results[1].count = 0)
    => \/ outcome = "ExecutorError" /\ Len(trace) = 2 /\ Len(results) = 1
       \/ /\ outcome = "ZeroDivisionError"
          /\ Len(results) = 2
          /\ Len(trace) = 2
          /\ trace[1].op = "row_count"
          /\ trace[1].sql = "SELECT * FROM " \o call.ids[1] \o "." \o call.target
          /\ trace[2].op = "row_count"
          /\ trace[2].sql = "SELECT * FROM " \o call.ids[1] \o "." \o call.target
                                \o " WHERE " \o call.ids[2] \o " IS NULL"

C11_Witness ==
    /\ Ended({"count_empty_column_value_percentage"})
    /\ results = <<CountResult(0), CountResult(0)>>
    /\ call.n = StrArg(<<"a", "b", "c">>)
    /\ outcome = "ZeroDivisionError"

\* C12: no step of a check changes the driver name, and whenever the host is
\* back between two invocations no cursor that a check opened on the shared
\* connection is still unreleased.
C12_StatelessChecks ==
    [][/\ db_api_module_name' = db_api_module_name
       /\ pc' = "idle" => cursors' = 0]_vars

CountKeywords == {"count_specific_table", "count_unique_rows_table2"}

\* C13: count_specific_table and count_unique_rows_table2, given the target n
\* as a numeric string, pass iff the number of rows of the table (of distinct
\* key values) that the aggregate statement counted equals n.
C13_CountEqualsTarget ==
    (/\ Ended(CountKeywords)
     /\ call.n.type = "str"
     /\ call.n.chars \in NumericStrings)
    => (outcome = "pass" <=> results[1].rows[1][1] = NumericValue(call.n.chars))

\* The integer a field argument of FieldArgs stands for.
FieldValue(field) ==
    IF field.type = "int" THEN field.int
    ELSE CHOOSE i \in 0..3 : DecimalChars(i) = field.chars

\* C14: with u the distinct count value_variance_check extracted, an integer
\* field 0 or 1 passes iff u = field, field 2 passes iff u >= 2, and any
\* other integer field raises the AssertionError that asks for 0, 1 or 2; in
\* every case the one distinct-count call has been made before.
C14_ValueVariance ==
    /\ (call.kw = "value_variance_check" /\ pc # "idle") =>
        /\ Len(trace) = 1
        /\ trace[1].op = "count_unique_rows_table"
        /\ pc = "done" /\ outcome # "ExecutorError" => Len(results) = 1
    /\ (/\ Ended({"value_variance_check"})
        /\ Len(scalars) = 1
        /\ call.n # StrArg(<<"x">>))
       => LET u == scalars[1]
              field == FieldValue(call.n)
          IN  /\ outcome \in Verdicts
              /\ field \in {0, 1} => (outcome = "pass" <=> u = field)
              /\ field = 2 => (outcome = "pass" <=> u >= 2)
              /\ field \notin {0, 1, 2} =>
                    /\ outcome = "AssertionError"
                    /\ message = <<"Check 4th argument in TC, expected value 0, 1 or 2">>

C14_Witness ==
    /\ Ended({"value_variance_check"})
    /\ call.n = StrArg(<<"2">>)
    /\ results[1].rows = << <<3>> >>
    /\ scalars = <<3>>
    /\ outcome = "pass"

====
